---- MODULE Spec2Model ----
(***************************************************************************)
(* Model of src/utils.py, the metadata utilities of the ModuLair virtual   *)
(* environment manager: per-owner metadata.json files, the merged view,    *)
(* lookup by name and removal.                                             *)
(*                                                                         *)
(* A path is the sequence of its segments.  A file is a record             *)
(* [kind, envs]: kind says what open()/json.load() meet there              *)
(*   "missing"    no such file            (FileNotFoundError)              *)
(*   "denied"     not readable            (PermissionError)                *)
(*   "ioerror"    any other read failure  (e.g. IsADirectoryError)         *)
(*   "malformed"  text that is not JSON   (json.JSONDecodeError)           *)
(*   "nondict"    valid JSON, not an object (a list, null, a number)       *)
(*   "nokey"      a JSON object without the key "environments"             *)
(*   "junk"       a JSON object whose "environments" is a number           *)
(*   "doc"        a JSON object whose "environments" is the list envs      *)
(* and the last four kinds are also the Python values json.load returns.   *)
(* The model assumes that the directories exist and that open(path, 'w')   *)
(* succeeds on every path it is given.                                     *)
(***************************************************************************)
EXTENDS Integers, Sequences, FiniteSets, TLC

VARIABLES fs, SCRATCH, USER, groups, call, pc, req, found, metadata, out

vars == <<fs, SCRATCH, USER, groups, call, pc, req, found, metadata, out>>

(* ------------------------------ bounds --------------------------------- *)

MaxEnvs == 3

MaxGroups == 2

Names == {"a", "b"}

Users == {"alice", "bob"}

GroupNames == {"g1", "g2"}

Procs == {1, 2}

(* Environment records: a name plus one opaque extra field. *)
Records ==
  { [name |-> "a", id |-> 1], [name |-> "a", id |-> 2], [name |-> "b", id |-> 3] }

NoEnv == [name |-> "", id |-> 0]

RECURSIVE SeqsUpTo(_, _)
SeqsUpTo(S, n) ==
  IF n = 0 THEN { <<>> }
  ELSE LET shorter == SeqsUpTo(S, n - 1)
       IN  shorter \cup { Append(s, x) : s \in shorter, x \in S }

Injective(s) == \A i, j \in 1..Len(s) : s[i] = s[j] => i = j

EnvLists == { s \in SeqsUpTo(Records, MaxEnvs) : Injective(s) }

GroupLists == SeqsUpTo(GroupNames, MaxGroups)

(* ------------------------------ values --------------------------------- *)

File(k, e) == [kind |-> k, envs |-> e]

Doc(e) == File("doc", e)

EmptyDoc == Doc(<<>>)

Docs == { Doc(e) : e \in EnvLists }

FaultKinds == {"missing", "denied", "ioerror", "malformed"}

OddKinds == {"nondict", "nokey", "junk"}

Faults == { File(k, <<>>) : k \in FaultKinds }

Odd == { File(k, <<>>) : k \in OddKinds }

Contents == Docs \cup Faults \cup Odd

Unset == [set |-> FALSE, segs |-> <<>>, slash |-> FALSE]

Dir(segs, slash) == [set |-> TRUE, segs |-> segs, slash |-> slash]

ScratchValues ==
  { Unset,
    Dir(<<"scratch", "user", "alice">>, FALSE),
    Dir(<<"scratch", "user", "alice">>, TRUE),
    Dir(<<"scratch", "user", "bob">>, FALSE) }

(* ------------------------------- paths --------------------------------- *)

UserMetadataPath(user) == <<"scratch", "user", user, "virtual_envs", "metadata.json">>

GroupMetadataPath(group_name) ==
  <<"scratch", "group", group_name, "virtual_envs", "metadata.json">>

os_path_join(scratch, parts) == scratch.segs \o parts

Paths ==
  { UserMetadataPath(u) : u \in Users } \cup { GroupMetadataPath(g) : g \in GroupNames }

get_user(scratch) ==
  IF ~scratch.set THEN [exc |-> "AttributeError", user |-> ""]
  ELSE IF scratch.segs = <<>> THEN [exc |-> "none", user |-> ""]
  ELSE [exc |-> "none", user |-> scratch.segs[Len(scratch.segs)]]

get_metadata_file_path(scratch, source_type, source_name) ==
  IF source_type = "user"
  THEN IF ~scratch.set THEN [exc |-> "TypeError", path |-> <<>>]
       ELSE [exc |-> "none",
             path |-> os_path_join(scratch, <<"virtual_envs", "metadata.json">>)]
  ELSE IF source_type = "group"
  THEN [exc |-> "none", path |-> GroupMetadataPath(source_name)]
  ELSE [exc |-> "ValueError", path |-> <<>>]

(* ------------------------------ loading -------------------------------- *)

Ret(v) == [exc |-> "none", val |-> v]

Raise(e) == [exc |-> e, val |-> EmptyDoc]

json_load(file) ==
  IF file.kind = "malformed" THEN Raise("JSONDecodeError") ELSE Ret(file)

(* A file is modelled by the value its text parses to, and json.dump of a   *)
(* dict of strings, numbers and lists writes a text that parses to an      *)
(* equal dict: what a write stores is the value handed to it.              *)
json_dump(value) == File(value.kind, value.envs)

open_read(file) ==
  IF file.kind = "missing" THEN Raise("FileNotFoundError")
  ELSE IF file.kind = "denied" THEN Raise("PermissionError")
  ELSE IF file.kind = "ioerror" THEN Raise("OSError")
  ELSE Ret(file)

(* with open(path, 'r') as file: json.load(file) *)
read_json(file) ==
  IF open_read(file).exc # "none" THEN open_read(file) ELSE json_load(file)

UserExcept(r) ==
  IF r.exc = "none" THEN r
  ELSE IF r.exc = "FileNotFoundError" THEN Ret(EmptyDoc)
  ELSE IF r.exc = "JSONDecodeError" THEN Raise("Exception: corrupted")
  ELSE Raise("Exception: unexpected")

GroupExcept(r) == IF r.exc = "none" THEN r ELSE Ret(EmptyDoc)

(* the group loader's handling applied to the user's file *)
load_user_metadata_Absorbing(files, user) ==
  GroupExcept(read_json(files[UserMetadataPath(user)]))

load_user_metadata(files, user) == UserExcept(read_json(files[UserMetadataPath(user)]))

load_group_metadata(files, group_name) ==
  GroupExcept(read_json(files[GroupMetadataPath(group_name)]))

(* value.get exists: the value is a dict *)
HasGet(value) == value.kind # "nondict"

(* value.get('environments') in a boolean context *)
TruthyEnvironments(value) ==
  \/ value.kind = "junk"
  \/ value.kind = "doc" /\ value.envs # <<>>

Keys(items) == [i \in 1..Len(items) |-> items[i].name]

KeySet(items) == { items[i].name : i \in 1..Len(items) }

(* d[key] = value on an insertion-ordered dict *)
DictSet(items, key, value) ==
  IF key \in KeySet(items)
  THEN [i \in 1..Len(items) |->
          IF items[i].name = key THEN [name |-> key, doc |-> value] ELSE items[i]]
  ELSE Append(items, [name |-> key, doc |-> value])

(* lines 87-89 for one group: acc is all_metadata['groups'] so far *)
AddGroup(acc, group, group_metadata) ==
  IF acc.exc # "none" THEN acc
  ELSE IF ~HasGet(group_metadata) THEN [exc |-> "AttributeError", groups |-> acc.groups]
  ELSE IF TruthyEnvironments(group_metadata)
  THEN [exc |-> "none", groups |-> DictSet(acc.groups, group, group_metadata)]
  ELSE acc

RECURSIVE LoadGroups(_, _)
LoadGroups(files, group_list) ==
  IF group_list = <<>> THEN [exc |-> "none", groups |-> <<>>]
  ELSE AddGroup(LoadGroups(files, SubSeq(group_list, 1, Len(group_list) - 1)),
                group_list[Len(group_list)],
                load_group_metadata(files, group_list[Len(group_list)]).val)

Merged(u, g) ==
  IF u.exc # "none" THEN [exc |-> u.exc, user |-> EmptyDoc, groups |-> <<>>]
  ELSE IF g.exc # "none" THEN [exc |-> g.exc, user |-> EmptyDoc, groups |-> <<>>]
  ELSE [exc |-> "none", user |-> u.val, groups |-> g.groups]

(* every group directory is read, not only the groups of the user *)
load_all_metadata_EveryGroup(files, user, group_list) ==
  Merged(load_user_metadata(files, user), LoadGroups(files, <<"g1", "g2">>))

load_all_metadata(files, user, group_list) ==
  Merged(load_user_metadata(files, user), LoadGroups(files, group_list))

(* ------------------------------- lookup -------------------------------- *)

Matches(envs, env_name) == { i \in 1..Len(envs) : envs[i].name = env_name }

(* index of the first record of envs named env_name, 0 when there is none *)
FirstIndex(envs, env_name) ==
  IF Matches(envs, env_name) = {} THEN 0
  ELSE CHOOSE i \in Matches(envs, env_name) : \A j \in Matches(envs, env_name) : i <= j

EnvAt(envs, i) == IF i = 0 THEN NoEnv ELSE envs[i]

(* for env in value.get('environments', []): if env.get('name') == env_name *)
ScanEnvironments(value, env_name) ==
  IF value.kind = "nondict" THEN [exc |-> "AttributeError", env |-> NoEnv]
  ELSE IF value.kind = "junk" THEN [exc |-> "TypeError", env |-> NoEnv]
  ELSE IF value.kind = "nokey" THEN [exc |-> "none", env |-> NoEnv]
  ELSE [exc |-> "none", env |-> EnvAt(value.envs, FirstIndex(value.envs, env_name))]

Found(t, n, e) == [exc |-> "none", source_type |-> t, source_name |-> n, env |-> e]

NotFound == Found("None", "None", NoEnv)

FindRaise(e) == [exc |-> e, source_type |-> "None", source_name |-> "None", env |-> NoEnv]

(* lines 115-117 for one group, unless an earlier group has answered *)
GroupHit(earlier, group_name, hit) ==
  IF earlier.exc # "none" \/ earlier.source_type # "None" THEN earlier
  ELSE IF hit.exc # "none" THEN FindRaise(hit.exc)
  ELSE IF hit.env # NoEnv THEN Found("group", group_name, hit.env)
  ELSE NotFound

RECURSIVE ScanGroups(_, _)
ScanGroups(items, env_name) ==
  IF items = <<>> THEN NotFound
  ELSE GroupHit(ScanGroups(SubSeq(items, 1, Len(items) - 1), env_name),
                items[Len(items)].name,
                ScanEnvironments(items[Len(items)].doc, env_name))

(* lines 109-111 *)
UserHit(hit, who, in_groups) ==
  IF hit.exc # "none" THEN FindRaise(hit.exc)
  ELSE IF hit.env # NoEnv
  THEN IF who.exc # "none" THEN FindRaise(who.exc)
       ELSE Found("user", who.user, hit.env)
  ELSE in_groups

(* the groups are searched before the user document *)
GroupsFirst(in_groups, hit, who) ==
  IF in_groups.exc # "none" \/ in_groups.source_type # "None" THEN in_groups
  ELSE UserHit(hit, who, NotFound)

SearchGroupsFirst(all_metadata, scratch, env_name) ==
  IF all_metadata.exc # "none" THEN FindRaise(all_metadata.exc)
  ELSE GroupsFirst(ScanGroups(all_metadata.groups, env_name),
                   ScanEnvironments(all_metadata.user, env_name), get_user(scratch))

find_environment_by_name_GroupsFirst(files, scratch, user, group_list, env_name) ==
  SearchGroupsFirst(load_all_metadata(files, user, group_list), scratch, env_name)

(* lines 108-119 *)
Search(all_metadata, scratch, env_name) ==
  IF all_metadata.exc # "none" THEN FindRaise(all_metadata.exc)
  ELSE UserHit(ScanEnvironments(all_metadata.user, env_name), get_user(scratch),
               ScanGroups(all_metadata.groups, env_name))

find_environment_by_name(files, scratch, user, group_list, env_name) ==
  Search(load_all_metadata(files, user, group_list), scratch, env_name)

(* ------------------------------ mutation ------------------------------- *)

(* environments.pop() without the index: the last record goes *)
RemoveAt_Last(envs, i) == SubSeq(envs, 1, Len(envs) - 1)

RemoveAt(envs, i) == [j \in 1..(Len(envs) - 1) |-> IF j < i THEN envs[j] ELSE envs[j + 1]]

WriteAt(files, where, content) ==
  IF where.exc # "none" THEN [exc |-> where.exc, files |-> files]
  ELSE [exc |-> "none",
        files |-> [p \in DOMAIN files |-> IF p = where.path THEN content ELSE files[p]]]

InValue(value, e) == e \in { value.envs[i] : i \in 1..Len(value.envs) }

KeepOnly(current, value) ==
  [i \in 1..Len(current.envs) |-> InValue(value, current.envs[i])]

RECURSIVE Filter(_, _)
Filter(envs, keep) ==
  IF envs = <<>> THEN <<>>
  ELSE IF keep[Len(envs)]
  THEN Append(Filter(SubSeq(envs, 1, Len(envs) - 1), keep), envs[Len(envs)])
  ELSE Filter(SubSeq(envs, 1, Len(envs) - 1), keep)

MergeAt(files, where, value) ==
  IF where.exc # "none" THEN [exc |-> where.exc, files |-> files]
  ELSE IF files[where.path].kind = "doc" /\ value.kind = "doc"
  THEN WriteAt(files, where,
               Doc(Filter(files[where.path].envs, KeepOnly(files[where.path], value))))
  ELSE WriteAt(files, where, json_dump(value))

(* a write that keeps only the records the file on disk still has *)
update_metadata_file_Merging(files, scratch, value, source_type, source_name) ==
  MergeAt(files, get_metadata_file_path(scratch, source_type, source_name), value)

update_metadata_file(files, scratch, value, source_type, source_name) ==
  WriteAt(files, get_metadata_file_path(scratch, source_type, source_name),
          json_dump(value))

(* lines 193-197: reload the owning document *)
ReloadOwner(files, user, source_type, source_name) ==
  IF source_type = "user" THEN load_user_metadata(files, user)
  ELSE load_group_metadata(files, source_name)

Popped(value, env_name, hit) ==
  IF hit.exc # "none" THEN [exc |-> hit.exc, removed |-> NoEnv, value |-> value]
  ELSE IF hit.env = NoEnv THEN [exc |-> "none", removed |-> NoEnv, value |-> value]
  ELSE [exc |-> "none", removed |-> hit.env,
        value |-> Doc(RemoveAt(value.envs, FirstIndex(value.envs, env_name)))]

PoppedStrict(value, env_name, hit) ==
  IF hit.exc = "none" /\ hit.env = NoEnv
  THEN [exc |-> "ValueError", removed |-> NoEnv, value |-> value]
  ELSE Popped(value, env_name, hit)

(* environments.remove(...) in place of the scan: no match raises *)
PopEnvironment_Strict(value, env_name) ==
  PoppedStrict(value, env_name, ScanEnvironments(value, env_name))

(* lines 199-206: pop the first record named env_name *)
PopEnvironment(value, env_name) ==
  Popped(value, env_name, ScanEnvironments(value, env_name))

Removal(e, ok, t, n, env, files) ==
  [exc |-> e, ok |-> ok, source_type |-> t, source_name |-> n, env |-> env, files |-> files]

Failed(e, files) == Removal(e, FALSE, "None", "None", NoEnv, files)

(* lines 208-211 *)
AfterWrite(f, popped, written, files) ==
  IF written.exc # "none" THEN Failed(written.exc, files)
  ELSE Removal("none", TRUE, f.source_type, f.source_name, popped.removed, written.files)

(* lines 208-213 *)
AfterPop(files, scratch, f, popped) ==
  IF popped.exc # "none" THEN Failed(popped.exc, files)
  ELSE IF popped.removed = NoEnv
  THEN Removal("none", FALSE, f.source_type, f.source_name, NoEnv, files)
  ELSE AfterWrite(f, popped,
                  update_metadata_file(files, scratch, popped.value,
                                       f.source_type, f.source_name),
                  files)

(* lines 199-213 *)
AfterReload(files, scratch, env_name, f, loaded) ==
  IF loaded.exc # "none" THEN Failed(loaded.exc, files)
  ELSE AfterPop(files, scratch, f, PopEnvironment(loaded.val, env_name))

(* lines 190-213 *)
AfterFind(files, scratch, user, env_name, f) ==
  IF f.exc # "none" THEN Failed(f.exc, files)
  ELSE IF f.source_type = "None" THEN Failed("none", files)
  ELSE AfterReload(files, scratch, env_name, f,
                   ReloadOwner(files, user, f.source_type, f.source_name))

remove_environment_from_metadata(files, scratch, user, group_list, env_name) ==
  AfterFind(files, scratch, user, env_name,
            find_environment_by_name(files, scratch, user, group_list, env_name))

(* --------------------------- calls, one at a time ---------------------- *)

(* call: the last completed call, its arguments, the files before it and   *)
(* what it returned or raised.                                             *)
Call(op, arg, owner, pre, exc, ok, t, n, env, doc, view) ==
  [op |-> op, arg |-> arg, owner |-> owner, pre |-> pre, exc |-> exc, ok |-> ok,
   source_type |-> t, source_name |-> n, env |-> env, doc |-> doc, view |-> view]

NoCall == Call("none", "", "", fs, "none", FALSE, "None", "None", NoEnv, EmptyDoc, <<>>)

IdleProcs ==
  /\ pc = [p \in Procs |-> "idle"]
  /\ req = [p \in Procs |-> ""]
  /\ found = [p \in Procs |-> NotFound]
  /\ metadata = [p \in Procs |-> EmptyDoc]
  /\ out = [p \in Procs |-> Removal("none", FALSE, "None", "None", NoEnv, <<>>)]

Range(s) == { s[i] : i \in 1..Len(s) }

(* an environment is recorded by one owner: no record is in two files *)
Apart(f, g) == Range(f.envs) \cap Range(g.envs) = {}

(* The files of the current user and of the two groups hold any of the     *)
(* given contents; the other user has no metadata file.                    *)
InitWith(user_files, group_files, scratch_values, user_values, group_lists) ==
  /\ USER \in user_values
  /\ SCRATCH \in scratch_values
  /\ groups \in group_lists
  /\ \E u \in user_files, g1 \in group_files, g2 \in group_files :
       /\ Apart(u, g1) /\ Apart(u, g2) /\ Apart(g1, g2)
       /\ fs = [p \in Paths |->
                 IF p = UserMetadataPath(USER) THEN u
                 ELSE IF p = GroupMetadataPath("g1") THEN g1
                 ELSE IF p = GroupMetadataPath("g2") THEN g2
                 ELSE File("missing", <<>>)]
  /\ call = NoCall
  /\ IdleProcs

LoadUserCall ==
  \E r \in {load_user_metadata(fs, USER)} :
      /\ call' = Call("load_user", "", "", fs, r.exc, r.exc = "none", "None", "None",
                      NoEnv, r.val, <<>>)
      /\ UNCHANGED <<fs, SCRATCH, USER, groups, pc, req, found, metadata, out>>

LoadGroupCall(g) ==
  \E r \in {load_group_metadata(fs, g)} :
      /\ call' = Call("load_group", "", g, fs, r.exc, r.exc = "none", "None", "None",
                      NoEnv, r.val, <<>>)
      /\ UNCHANGED <<fs, SCRATCH, USER, groups, pc, req, found, metadata, out>>

LoadAllCall ==
  \E r \in {load_all_metadata(fs, USER, groups)} :
      /\ call' = Call("load_all", "", "", fs, r.exc, r.exc = "none", "None", "None",
                      NoEnv, r.user, r.groups)
      /\ UNCHANGED <<fs, SCRATCH, USER, groups, pc, req, found, metadata, out>>

FindCall(n) ==
  \E r \in {find_environment_by_name(fs, SCRATCH, USER, groups, n)} :
      /\ call' = Call("find", n, "", fs, r.exc, r.source_type # "None", r.source_type,
                      r.source_name, r.env, EmptyDoc, <<>>)
      /\ UNCHANGED <<fs, SCRATCH, USER, groups, pc, req, found, metadata, out>>

RemoveCall(n) ==
  \E r \in {remove_environment_from_metadata(fs, SCRATCH, USER, groups, n)} :
      /\ fs' = r.files
      /\ call' = Call("remove", n, "", fs, r.exc, r.ok, r.source_type, r.source_name,
                      r.env, EmptyDoc, <<>>)
      /\ UNCHANGED <<SCRATCH, USER, groups, pc, req, found, metadata, out>>

(* write_document(D, source_type, source_name), then the reload of that owner *)
WriteCall(D, source_type, source_name) ==
  \E w \in {update_metadata_file(fs, SCRATCH, D, source_type, source_name)} :
    \E r \in {ReloadOwner(w.files, USER, source_type, source_name)} :
      /\ fs' = w.files
      /\ call' = Call("write", "", source_name, fs,
                      IF w.exc # "none" THEN w.exc ELSE r.exc,
                      w.exc = "none" /\ r.exc = "none",
                      source_type, source_name, NoEnv, r.val, <<[name |-> "D", doc |-> D]>>)
      /\ UNCHANGED <<SCRATCH, USER, groups, pc, req, found, metadata, out>>

Kinds(ks) == { File(k, <<>>) : k \in ks }

UserFiles == Docs \cup Kinds({"missing", "malformed", "denied", "ioerror", "nondict"})

GroupFiles == Docs \cup Kinds({"missing", "malformed", "nondict", "junk"})

AliceScratch == Dir(<<"scratch", "user", "alice">>, FALSE)

Init == InitWith(UserFiles, GroupFiles, ScratchValues, {"alice"}, GroupLists)

Next ==
  \/ LoadUserCall
  \/ LoadAllCall
  \/ \E n \in Names : FindCall(n)
  \/ \E n \in Names : RemoveCall(n)

Spec == Init /\ [][Next]_vars

(* loading alone, over every kind of file *)
InitLoad == InitWith(Contents, Contents, {AliceScratch}, {"alice"}, GroupLists)

NextLoad ==
  \/ LoadUserCall
  \/ \E g \in GroupNames : LoadGroupCall(g)
  \/ LoadAllCall

SpecLoad == InitLoad /\ [][NextLoad]_vars

(* one write_document and its reload from every initial state: what a     *)
(* write does depends on the files before it and on nothing else          *)
SmallFiles == { EmptyDoc, Doc(<<[name |-> "b", id |-> 3]>>) } \cup Kinds({"missing", "malformed"})

InitWrite == InitWith(SmallFiles, SmallFiles, ScratchValues, Users, {<<"g1", "g2">>})

NextWrite ==
  /\ call.op = "none"
  /\ \E D \in Docs :
       \/ WriteCall(D, "user", USER)
       \/ \E G \in GroupNames : WriteCall(D, "group", G)

SpecWrite == InitWrite /\ [][NextWrite]_vars

(* ------------------- two concurrent remove_environment calls ----------- *)

Start(p, n) ==
  /\ pc[p] = "idle"
  /\ pc' = [pc EXCEPT ![p] = "resolve"]
  /\ req' = [req EXCEPT ![p] = n]
  /\ UNCHANGED <<fs, SCRATCH, USER, groups, call, found, metadata, out>>

(* lines 188-191 *)
Resolve(p) ==
  /\ pc[p] = "resolve"
  /\ \E f \in {find_environment_by_name(fs, SCRATCH, USER, groups, req[p])} :
         /\ found' = [found EXCEPT ![p] = f]
         /\ IF f.exc # "none"
            THEN /\ pc' = [pc EXCEPT ![p] = "done"]
                 /\ out' = [out EXCEPT ![p] =
                              Removal(f.exc, FALSE, "None", "None", NoEnv, <<>>)]
            ELSE IF f.source_type = "None"
            THEN /\ pc' = [pc EXCEPT ![p] = "done"]
                 /\ out' = [out EXCEPT ![p] =
                              Removal("none", FALSE, "None", "None", NoEnv, <<>>)]
            ELSE /\ pc' = [pc EXCEPT ![p] = "reload"]
                 /\ out' = out
  /\ UNCHANGED <<fs, SCRATCH, USER, groups, call, req, metadata>>

(* lines 193-206, and line 213 when nothing was removed *)
Reload(p) ==
  /\ pc[p] = "reload"
  /\ \E loaded \in {ReloadOwner(fs, USER, found[p].source_type, found[p].source_name)} :
       \E popped \in {PopEnvironment(loaded.val, req[p])} :
         IF loaded.exc # "none" \/ popped.exc # "none"
         THEN /\ pc' = [pc EXCEPT ![p] = "done"]
              /\ out' = [out EXCEPT ![p] =
                           Removal(IF loaded.exc # "none" THEN loaded.exc ELSE popped.exc,
                                   FALSE, "None", "None", NoEnv, <<>>)]
              /\ metadata' = metadata
         ELSE IF popped.removed = NoEnv
         THEN /\ pc' = [pc EXCEPT ![p] = "done"]
              /\ out' = [out EXCEPT ![p] =
                           Removal("none", FALSE, found[p].source_type,
                                   found[p].source_name, NoEnv, <<>>)]
              /\ metadata' = metadata
         ELSE /\ pc' = [pc EXCEPT ![p] = "write"]
              /\ out' = [out EXCEPT ![p] =
                           Removal("none", FALSE, found[p].source_type,
                                   found[p].source_name, popped.removed, <<>>)]
              /\ metadata' = [metadata EXCEPT ![p] = popped.value]
  /\ UNCHANGED <<fs, SCRATCH, USER, groups, call, req, found>>

(* lines 208-211 *)
Write(p) ==
  /\ pc[p] = "write"
  /\ \E w \in {update_metadata_file(fs, SCRATCH, metadata[p],
                                     found[p].source_type, found[p].source_name)} :
         /\ fs' = w.files
         /\ out' = [out EXCEPT ![p] =
                      Removal(w.exc, w.exc = "none",
                              IF w.exc = "none" THEN found[p].source_type ELSE "None",
                              IF w.exc = "none" THEN found[p].source_name ELSE "None",
                              IF w.exc = "none" THEN out[p].env ELSE NoEnv, <<>>)]
  /\ pc' = [pc EXCEPT ![p] = "done"]
  /\ UNCHANGED <<SCRATCH, USER, groups, call, req, found, metadata>>

RaceFiles == Docs \cup Kinds({"missing"})

InitRace == InitWith(RaceFiles, RaceFiles, {AliceScratch}, {"alice"}, {<<"g1", "g2">>})

NextRace ==
  \E p \in Procs :
    \/ \E n \in Names : Start(p, n)
    \/ Resolve(p)
    \/ Reload(p)
    \/ Write(p)

SpecRace == InitRace /\ [][NextRace]_vars

(* ============================ properties =============================== *)

UserFile(files) == files[UserMetadataPath(USER)]

GroupFile(files, g) == files[GroupMetadataPath(g)]

Listed == Range(groups)

Positions(envs, n) == { i \in 1..Len(envs) : envs[i].name = n }

Has(file, n) == file.kind = "doc" /\ Positions(file.envs, n) # {}

Earliest(envs, n) == CHOOSE i \in Positions(envs, n) : \A j \in Positions(envs, n) : i <= j

Without(envs, i) == SubSeq(envs, 1, i - 1) \o SubSeq(envs, i + 1, Len(envs))

(* the file holds a metadata document, or there is no file *)
IsDocument(file) == file.kind \in {"doc", "nokey", "missing"}

(* the user's file is a document and no listed group's file holds JSON that *)
(* is not a metadata document                                               *)
Documents(files) ==
  /\ IsDocument(UserFile(files))
  /\ \A g \in Listed : GroupFile(files, g).kind \notin {"nondict", "junk"}

OnlyInGroup(files, n, G) ==
  /\ G \in Listed
  /\ Has(GroupFile(files, G), n)
  /\ ~Has(UserFile(files), n)
  /\ \A g \in GroupNames \ {G} : ~Has(GroupFile(files, g), n)

RemovedFrom(n, G) ==
  LET before == GroupFile(call.pre, G).envs
      i == Earliest(before, n)
  IN  /\ call.exc = "none" /\ call.ok
      /\ call.source_type = "group" /\ call.source_name = G
      /\ call.env = before[i]
      /\ GroupFile(fs, G) = Doc(Without(before, i))
      /\ \A p \in Paths \ {GroupMetadataPath(G)} : fs[p] = call.pre[p]

(* C1 as stated: a name present only in group G is removed from G's       *)
(* document, which afterwards holds no record of that name and all its    *)
(* other records in their original order.                                  *)
C1_NoRecordOfThatNameLeft ==
  \A G \in GroupNames :
    (call.op = "remove" /\ Documents(call.pre) /\ OnlyInGroup(call.pre, call.arg, G))
      => /\ RemovedFrom(call.arg, G)
         /\ ~Has(GroupFile(fs, G), call.arg)

(* C1 amended: remove_environment(n) of a name present only in group G     *)
(* returns success with source_type "group", source_name G and the first   *)
(* record named n of G's document; afterwards G's document is its former   *)
(* content without that one record: every other record, a later record of  *)
(* the same name included, is still there in the original order, and no    *)
(* other file has changed.                                                 *)
C1_GroupRemoval ==
  \A G \in GroupNames :
    (call.op = "remove" /\ Documents(call.pre) /\ OnlyInGroup(call.pre, call.arg, G))
      => /\ RemovedFrom(call.arg, G)
         /\ (Cardinality(Positions(GroupFile(call.pre, G).envs, call.arg)) = 1
               => ~Has(GroupFile(fs, G), call.arg))

C1_Witness ==
  /\ call.op = "remove" /\ call.arg = "b" /\ call.ok
  /\ Documents(call.pre) /\ OnlyInGroup(call.pre, "b", "g2")
  /\ Len(GroupFile(call.pre, "g2").envs) = 3
  /\ GroupFile(call.pre, "g2").envs[2].name = "b"
  /\ Len(GroupFile(fs, "g2").envs) = 2

Absent(files, n) ==
  /\ ~Has(UserFile(files), n)
  /\ \A g \in Listed : ~Has(GroupFile(files, g), n)

(* C2: remove_environment of a name that is in neither the user document   *)
(* nor a document of the user's groups returns (False, None, None, None),  *)
(* and no metadata file is written.                                        *)
C2_AbsentNameNoWrite ==
  (call.op = "remove" /\ Absent(call.pre, call.arg))
    => /\ fs = call.pre
       /\ ~call.ok
       /\ Documents(call.pre)
            => /\ call.exc = "none"
               /\ call.source_type = "None" /\ call.source_name = "None"
               /\ call.env = NoEnv

C2_Witness ==
  /\ call.op = "remove" /\ call.arg = "b" /\ Absent(call.pre, "b")
  /\ Documents(call.pre)
  /\ Has(UserFile(call.pre), "a")
  /\ groups = <<"g1">> /\ Has(GroupFile(call.pre, "g1"), "a")
  /\ Has(GroupFile(call.pre, "g2"), "b")
  /\ call.exc = "none" /\ call.source_type = "None"

(* the listed groups before the first occurrence of G in the membership list *)
Before(G) ==
  LET at == CHOOSE i \in 1..Len(groups) :
              groups[i] = G /\ \A j \in 1..Len(groups) : groups[j] = G => i <= j
  IN  { groups[j] : j \in 1..(at - 1) }

(* C3: find_environment_by_name is first-match-wins, the user document     *)
(* first and then the groups in merged-view order: a record of the user    *)
(* document named n is returned as ("user", current user, first such       *)
(* record) whatever the group documents hold; a group G is returned only   *)
(* when the user document has no such record, and G is then the first      *)
(* listed group whose document has one.                                    *)
C3_FirstMatchWins ==
  call.op = "find" =>
    LET n == call.arg
        u == UserFile(call.pre)
    IN  /\ (Documents(call.pre) /\ SCRATCH.set) => call.exc = "none"
        /\ call.exc = "none" =>
             /\ Has(u, n) =>
                  /\ call.source_type = "user"
                  /\ call.source_name = SCRATCH.segs[Len(SCRATCH.segs)]
                  /\ call.env = u.envs[Earliest(u.envs, n)]
             /\ call.source_type = "group" =>
                  /\ ~Has(u, n)
                  /\ call.source_name \in Listed
                  /\ Has(GroupFile(call.pre, call.source_name), n)
                  /\ \A g \in Before(call.source_name) : ~Has(GroupFile(call.pre, g), n)
                  /\ LET e == GroupFile(call.pre, call.source_name).envs
                     IN  call.env = e[Earliest(e, n)]
             /\ call.source_type = "None" <=> Absent(call.pre, n)
             /\ call.source_type \in {"user", "group", "None"}

C3_Witness ==
  /\ call.op = "find" /\ call.arg = "a" /\ call.exc = "none"
  /\ groups = <<"g2", "g1">>
  /\ Has(UserFile(call.pre), "a") /\ Has(GroupFile(call.pre, "g2"), "a")
  /\ UserFile(call.pre).envs[1].name = "b"
  /\ call.source_type = "user" /\ call.source_name = "alice"

Unreadable(file) == file.kind \in {"malformed", "denied", "ioerror"}

(* C5: load_user_document returns the empty document when the user's file  *)
(* is missing and raises when the file is malformed JSON or unreadable;    *)
(* the error propagates out of load_all_metadata, find_environment_by_name *)
(* and remove_environment, and remove_environment then writes no file.     *)
C5_UserErrorsAreFatal ==
  LET u == UserFile(call.pre)
  IN  /\ (call.op = "load_user" /\ u.kind = "missing")
           => (call.exc = "none" /\ call.doc = EmptyDoc)
      /\ (call.op = "load_user" /\ u.kind = "malformed")
           => call.exc = "Exception: corrupted"
      /\ (call.op = "load_user" /\ u.kind \in {"denied", "ioerror"})
           => call.exc = "Exception: unexpected"
      /\ (call.op \in {"load_all", "find", "remove"} /\ Unreadable(u))
           => /\ call.exc = (IF u.kind = "malformed" THEN "Exception: corrupted"
                             ELSE "Exception: unexpected")
              /\ ~call.ok
              /\ fs = call.pre

C5_Witness ==
  /\ call.op = "remove" /\ call.arg = "a"
  /\ UserFile(call.pre).kind = "malformed"
  /\ groups = <<"g1">> /\ Has(GroupFile(call.pre, "g1"), "a")
  /\ call.exc = "Exception: corrupted"
  /\ fs = call.pre

(* C10: remove_environment(n) of a name that occurs exactly once in the    *)
(* user's document returns success with source_type "user", and the        *)
(* document load_user_document then reads has no record named n, whatever  *)
(* the scratch root and the username are; no group document changes.       *)
C10_UserRemovalTakesEffect ==
  (/\ call.op = "remove"
   /\ Documents(call.pre)
   /\ SCRATCH.set
   /\ Cardinality(Positions(UserFile(call.pre).envs, call.arg)) = 1)
    => /\ call.exc = "none" /\ call.ok /\ call.source_type = "user"
       /\ ~Has(load_user_metadata(fs, USER).val, call.arg)
       /\ \A g \in GroupNames : GroupFile(fs, g) = GroupFile(call.pre, g)

Faulty(file) == file.kind \in FaultKinds \cup {"nondict", "junk"}

NonEmpty(file) == file.kind = "doc" /\ file.envs # <<>>

(* C4: a fault in a group's file never aborts a merged load:               *)
(* load_group_document returns the empty document for a missing,           *)
(* unreadable, malformed or otherwise corrupted group file, and            *)
(* load_all_metadata completes and returns the user's document and every   *)
(* healthy non-empty group's document.                                     *)
C4_GroupFaultsAbsorbed ==
  /\ (call.op = "load_group" /\ Faulty(GroupFile(call.pre, call.owner)))
       => (call.exc = "none" /\ call.doc = EmptyDoc)
  /\ (call.op = "load_all" /\ IsDocument(UserFile(call.pre)))
       => /\ call.exc = "none"
          /\ call.doc = load_user_metadata(call.pre, USER).val
          /\ \A g \in Listed :
               NonEmpty(GroupFile(call.pre, g))
                 => \E i \in 1..Len(call.view) :
                      call.view[i] = [name |-> g, doc |-> GroupFile(call.pre, g)]

RECURSIVE FirstOccurrences(_)
FirstOccurrences(s) ==
  IF s = <<>> THEN <<>>
  ELSE LET front == FirstOccurrences(SubSeq(s, 1, Len(s) - 1))
           last == s[Len(s)]
       IN  IF last \in Range(front) THEN front ELSE Append(front, last)

HasEnvironment(g) == NonEmpty(GroupFile(call.pre, g))

(* C7: every result of load_all_metadata has a user entry, the empty       *)
(* document when the user's file is missing, and the keys of its groups    *)
(* mapping are exactly the listed groups whose document has at least one   *)
(* environment, each once, in the order of first occurrence in the         *)
(* membership list; no empty, missing or faulty group document appears.    *)
C7_MergedViewShape ==
  (call.op = "load_all" /\ call.exc = "none")
    => /\ call.doc = (IF UserFile(call.pre).kind = "missing" THEN EmptyDoc
                      ELSE UserFile(call.pre))
       /\ Keys(call.view) = FirstOccurrences(SelectSeq(groups, HasEnvironment))
       /\ \A i \in 1..Len(call.view) :
            call.view[i].doc = GroupFile(call.pre, call.view[i].name)

(* C6: write_document(D, owner) followed by the reload of that owner       *)
(* returns a document equal to D, for the user and for every group,        *)
(* whatever the scratch root and the username are.                         *)
C6_RoundTrip ==
  (call.op = "write" /\ SCRATCH.set)
    => /\ call.exc = "none"
       /\ call.doc = call.view[1].doc

OwnerPath(f) ==
  IF f.source_type = "user" THEN UserMetadataPath(USER) ELSE GroupMetadataPath(f.source_name)

Resolved(p) == found[p].exc = "none" /\ found[p].source_type # "None"

(* C8: the reload is authoritative: when the name was found during         *)
(* resolution and the owning document, reloaded, has no record of that     *)
(* name any more, remove_environment returns a failure result without      *)
(* raising and writes no metadata file.                                    *)
C8_ReloadIsAuthoritative ==
  [][\A p \in Procs :
       (/\ pc[p] = "reload" /\ pc'[p] # "reload"
        /\ Resolved(p)
        /\ ~Has(fs[OwnerPath(found[p])], req[p]))
         => /\ pc'[p] = "done"
            /\ out'[p].exc = "none" /\ ~out'[p].ok
            /\ out'[p].source_type = found[p].source_type
            /\ out'[p].source_name = found[p].source_name
            /\ out'[p].env = NoEnv
            /\ fs' = fs]_vars

C8_Witness ==
  \E p \in Procs :
    /\ pc[p] = "done" /\ Resolved(p)
    /\ found[p].source_type = "group" /\ found[p].env.name = req[p]
    /\ out[p].exc = "none" /\ ~out[p].ok /\ out[p].source_type = "group"
    /\ ~Has(fs[OwnerPath(found[p])], req[p])

Succeeded(p) == pc[p] = "done" /\ out[p].exc = "none" /\ out[p].ok

(* C9: two concurrent remove_environment calls on one document are a       *)
(* lost-update race: each writes the whole document it reloaded, less its  *)
(* own record, so when both have returned success the file is exactly what *)
(* one of them wrote, and it still holds the record the other call removed *)
(* whenever the two reloads preceded both writes.                          *)
C9_LastWriterWins ==
  \A p, q \in Procs :
    (/\ p # q /\ Succeeded(p) /\ Succeeded(q)
     /\ OwnerPath(found[p]) = OwnerPath(found[q]))
      => /\ fs[OwnerPath(found[p])] \in {metadata[p], metadata[q]}
         /\ out[p].env \in Range(fs[OwnerPath(found[p])].envs)
              => /\ fs[OwnerPath(found[p])] = metadata[q]
                 /\ out[p].env \in Range(metadata[q].envs)

C9_LostUpdate ==
  \E p, q \in Procs :
    /\ p # q /\ Succeeded(p) /\ Succeeded(q)
    /\ req[p] = "a" /\ req[q] = "b"
    /\ OwnerPath(found[p]) = OwnerPath(found[q])
    /\ out[p].env \in Range(fs[OwnerPath(found[p])].envs)
    /\ out[q].env \notin Range(fs[OwnerPath(found[p])].envs)

====
